---- MODULE Spec2Model ----
(***************************************************************************)
(* Habit tracker (src/App.js): the in-memory habit list of the App         *)
(* component, the single AsyncStorage slot it is persisted in, and the     *)
(* load / daily-reset rule run by the mount effect.                        *)
(*                                                                         *)
(* Text is a sequence of tokens, a token being a blank " " or a word.      *)
(* Time is the millisecond clock Date.now(); a calendar day is DayLen      *)
(* ticks long.  AsyncStorage is a queue of requests handed to the native   *)
(* side; Spec completes them in the order they were issued, SpecRace (the  *)
(* backend "with no transactional guarantees" of spec.md section 5 and 6)  *)
(* completes them in any order.                                            *)
(***************************************************************************)
EXTENDS Integers, Sequences, FiniteSets, TLC

VARIABLES
    now,          \* Date.now(), the millisecond clock
    slot,         \* the value stored under STORAGE_KEY
    queue,        \* AsyncStorage requests issued and not yet completed
    open,         \* TRUE while the App component is mounted
    habits,       \* useState: the habit list of the current render
    isInitial,    \* habits is the very array object INITIAL_HABITS
    loadState,    \* position of loadHabits: none, reading, arrived, applied
    loadResult,   \* what the awaited getItem resolved or rejected with
    lastAlert,    \* title of the last Alert.alert shown
    currentDate,  \* useState: the day shown in the header, set at mount
    startSlot,    \* history: slot when the session was started
    loadBranch,   \* history: branch loadHabits took in this session
    preLoad,      \* history: the user changed the list before the load was applied
    doneToday,    \* history: ids toggled to completed during the current day
    lastOp,       \* history: the last operation applied to the list this session
    resetDone,    \* history: clearAllHabits was confirmed in this session
    nOps,         \* number of user operations so far, all sessions together
    nFails        \* number of storage requests rejected in this session

vars == <<now, slot, queue, open, habits, isInitial, loadState, loadResult,
          lastAlert, currentDate, startSlot, loadBranch, preLoad,
          doneToday, lastOp, resetDone, nOps, nFails>>

(* Bounds of the model *)
DayLen == 2
MaxOps == 2
MaxFails == 1

NoDay == 0 - 1

(* The clock runs from the last tick of one day to the first of the next. *)
StartNow == 6 * DayLen - 1
EndNow == 6 * DayLen

(* ---------------------------- text ------------------------------------ *)
RECURSIVE TrimStart(_)
TrimStart(s) == IF s # <<>> /\ Head(s) = " " THEN TrimStart(Tail(s)) ELSE s

RECURSIVE TrimEnd(_)
TrimEnd(s) ==
    IF s # <<>> /\ s[Len(s)] = " " THEN TrimEnd(SubSeq(s, 1, Len(s) - 1)) ELSE s

(* Mutant: the form text is used as typed. *)
Trim_None(s) == s

Trim(s) == TrimEnd(TrimStart(s))

(* ---------------------------- records --------------------------------- *)
Habit(i, n, d, c) == [id |-> i, name |-> n, description |-> d, completed |-> c]

INITIAL_HABITS ==
    << Habit("1", <<"Drink", " ", "Water">>, <<"Drink", " ", "8", " ", "glasses">>, FALSE),
       Habit("2", <<"Exercise">>, <<"30", " ", "minutes", " ", "workout">>, FALSE),
       Habit("3", <<"Read">>, <<"Read", " ", "for", " ", "20", " ", "minutes">>, FALSE),
       Habit("4", <<"Meditate">>, <<"10", " ", "minutes", " ", "meditation">>, FALSE),
       Habit("5", <<"Eat", " ", "Healthy">>, <<"Include", " ", "vegetables">>, FALSE) >>

NoDescription == <<"No", " ", "description">>

(* new Date().toDateString(): the calendar day, without the time of day *)
DateString(t) == t \div DayLen

Today == DateString(now)

(* `${Date.now()}` *)
NewId(t) == ToString(t)

Ids(hs) == {hs[i].id : i \in 1..Len(hs)}


(* ---------------------------- storage values --------------------------- *)
(* What getItem can resolve with: null, or the stored string.  A string is *)
(* described by what JSON.parse makes of it.                               *)
Null == [present |-> FALSE, valid |-> FALSE, hasHabits |-> FALSE,
         habits |-> <<>>, date |-> NoDay]

Garbage == [present |-> TRUE, valid |-> FALSE, hasHabits |-> FALSE,
            habits |-> <<>>, date |-> NoDay]

EmptyObject == [present |-> TRUE, valid |-> TRUE, hasHabits |-> FALSE,
                habits |-> <<>>, date |-> NoDay]

JSONStringify(hs, d) == [present |-> TRUE, valid |-> TRUE, hasHabits |-> TRUE,
                         habits |-> hs, date |-> d]

JSONParse(raw) == [threw |-> ~raw.valid, habitsIsArray |-> raw.hasHabits,
                   habits |-> raw.habits, date |-> raw.date]

Resolved(raw) == [ok |-> TRUE, value |-> raw]
Rejected == [ok |-> FALSE, value |-> Null]

GetRequest == [op |-> "get", value |-> Null]
RemoveRequest == [op |-> "remove", value |-> Null]
SetRequest(raw) == [op |-> "set", value |-> raw]

(* ---------------------------- pure parts of App ------------------------ *)
(* Mutant: the map of line 75 without the completed: false. *)
ResetCompleted_Keep(hs) == hs

ResetCompleted(hs) == [i \in 1..Len(hs) |-> [hs[i] EXCEPT !.completed = FALSE]]

(* Mutant: a catch block that leaves an empty list. *)
Fallback_Empty == [habits |-> <<>>, isInitial |-> FALSE, branch |-> "Error"]

Fallback == [habits |-> INITIAL_HABITS, isInitial |-> TRUE, branch |-> "Error"]

(* Mutant: no same-day branch, the completion flags are always reset. *)
LoadRule_AlwaysReset(res, today) ==
    IF ~res.ok THEN Fallback
    ELSE IF ~res.value.present
    THEN [habits |-> INITIAL_HABITS, isInitial |-> TRUE, branch |-> "NoStoredData"]
    ELSE LET parsed == JSONParse(res.value)
             savedHabits == IF parsed.habitsIsArray THEN parsed.habits ELSE INITIAL_HABITS
         IN  IF parsed.threw THEN Fallback
             ELSE [habits |-> ResetCompleted(savedHabits), isInitial |-> FALSE,
                   branch |-> "NewDay"]

(* Mutant: the first-run branch returns without setHabits(INITIAL_HABITS). *)
LoadRule_FirstRunKeeps(res, today) ==
    IF ~res.ok THEN Fallback
    ELSE IF ~res.value.present
    THEN [habits |-> habits, isInitial |-> isInitial, branch |-> "NoStoredData"]
    ELSE LET parsed == JSONParse(res.value)
             savedHabits == IF parsed.habitsIsArray THEN parsed.habits ELSE INITIAL_HABITS
         IN  IF parsed.threw THEN Fallback
             ELSE IF parsed.date = today
             THEN [habits |-> savedHabits, isInitial |-> ~parsed.habitsIsArray,
                   branch |-> "SameDay"]
             ELSE [habits |-> ResetCompleted(savedHabits), isInitial |-> FALSE,
                   branch |-> "NewDay"]

LoadRule(res, today) ==
    IF ~res.ok THEN Fallback
    ELSE IF ~res.value.present
    THEN [habits |-> INITIAL_HABITS, isInitial |-> TRUE, branch |-> "NoStoredData"]
    ELSE LET parsed == JSONParse(res.value)
             savedHabits == IF parsed.habitsIsArray THEN parsed.habits ELSE INITIAL_HABITS
         IN  IF parsed.threw THEN Fallback
             ELSE IF parsed.date = today
             THEN [habits |-> savedHabits, isInitial |-> ~parsed.habitsIsArray,
                   branch |-> "SameDay"]
             ELSE [habits |-> ResetCompleted(savedHabits), isInitial |-> FALSE,
                   branch |-> "NewDay"]

DataToSave(hs, t) == JSONStringify(hs, DateString(t))

(* Mutant: the tapped habit is marked done instead of flipped. *)
Toggled_SetTrue(hs, id) ==
    [i \in 1..Len(hs) |->
        IF hs[i].id = id THEN [hs[i] EXCEPT !.completed = TRUE] ELSE hs[i]]

Toggled(hs, id) ==
    [i \in 1..Len(hs) |->
        IF hs[i].id = id THEN [hs[i] EXCEPT !.completed = ~hs[i].completed] ELSE hs[i]]

NewHabit(name, description, t) ==
    Habit(NewId(t), name, IF description = <<>> THEN NoDescription ELSE description, FALSE)

(* Mutant: the new habit is put in front of the list. *)
Added_Front(hs, h) == <<h>> \o hs

Added(hs, h) == Append(hs, h)

(* Mutant: the filter keeps the habit it should drop. *)
Removed_Inverted(hs, id) == SelectSeq(hs, LAMBDA h : h.id = id)

Removed(hs, id) == SelectSeq(hs, LAMBDA h : h.id # id)

(* The progress shown by a render of the list.  Math.round of a quotient   *)
(* that is not negative rounds a half up.                                  *)
(* Mutant: every habit is counted as done. *)
completedCount_All == Len(habits)

completedCount == Len(SelectSeq(habits, LAMBDA h : h.completed))

percentage ==
    IF Len(habits) = 0 THEN 0
    ELSE (200 * completedCount + Len(habits)) \div (2 * Len(habits))

(* setHabits(next): React keeps the state and runs no effect when next is   *)
(* the object it already holds; the only array object ever passed twice is  *)
(* INITIAL_HABITS.                                                          *)
SameObject(nextIsInitial) == nextIsInitial /\ isInitial

(* Mutant: saveHabits serialises the list of the render before. *)
Render_StaleClosure(next, nextIsInitial, q) ==
    /\ habits' = IF SameObject(nextIsInitial) THEN habits ELSE next
    /\ isInitial' = nextIsInitial
    /\ queue' = IF SameObject(nextIsInitial) THEN q
                ELSE Append(q, SetRequest(DataToSave(habits, now)))

(* A render with a new habits object runs the [habits] effect: saveHabits.  *)
Render(next, nextIsInitial, q) ==
    /\ habits' = IF SameObject(nextIsInitial) THEN habits ELSE next
    /\ isInitial' = nextIsInitial
    /\ queue' = IF SameObject(nextIsInitial) THEN q
                ELSE Append(q, SetRequest(DataToSave(next, now)))

(* ---------------------------- initial states -------------------------- *)
Stretch == Habit(NewId(StartNow - 1), <<"Stretch">>, <<"5", " ", "min">>, TRUE)

SavedList == << [INITIAL_HABITS[1] EXCEPT !.completed = TRUE], INITIAL_HABITS[3], Stretch >>

(* The list of a user who removed every habit but the first and did it. *)
OneLeft == << [INITIAL_HABITS[1] EXCEPT !.completed = TRUE] >>

(* What an earlier run of the program, or damage to the storage, left in   *)
(* the slot: nothing, an unparsable string, JSON that is no snapshot, a    *)
(* snapshot written earlier today.                                         *)
InitSlots == { Null, Garbage, EmptyObject,
               JSONStringify(SavedList, DateString(StartNow)),
               JSONStringify(OneLeft, DateString(StartNow)) }

DoneIn(raw) == {raw.habits[i].id : i \in {j \in 1..Len(raw.habits) : raw.habits[j].completed}}

Init ==
    /\ now = StartNow
    /\ slot \in InitSlots
    /\ queue = <<>>
    /\ open = FALSE
    /\ habits = INITIAL_HABITS
    /\ isInitial = TRUE
    /\ loadState = "none"
    /\ loadResult = Rejected
    /\ lastAlert = "none"
    /\ currentDate = NoDay
    /\ startSlot = Null
    /\ loadBranch = "none"
    /\ preLoad = FALSE
    /\ doneToday = DoneIn(slot)
    /\ lastOp = "none"
    /\ resetDone = FALSE
    /\ nOps = 0
    /\ nFails = 0

(* ---------------------------- the session ------------------------------ *)
(* Mount: useState(INITIAL_HABITS), then both effects in order: loadHabits *)
(* issues getItem and suspends, updateDate, saveHabits issues setItem of   *)
(* the list of this first render.                                          *)
(* The app is started once the requests of the run before have completed   *)
(* or were lost.                                                           *)
StartSession ==
    /\ ~open
    /\ queue = <<>>
    /\ open' = TRUE
    /\ habits' = INITIAL_HABITS
    /\ isInitial' = TRUE
    /\ queue' = <<GetRequest, SetRequest(DataToSave(INITIAL_HABITS, now))>>
    /\ loadState' = "reading"
    /\ currentDate' = Today
    /\ lastAlert' = "none"
    /\ startSlot' = slot
    /\ loadBranch' = "none"
    /\ preLoad' = FALSE
    /\ lastOp' = "mount"
    /\ resetDone' = FALSE
    /\ nFails' = 0
    /\ UNCHANGED <<now, slot, loadResult, doneToday, nOps>>

(* The app is closed: the component and its state are gone (the variables  *)
(* hold what the next mount's useState gives them); requests already       *)
(* handed to the storage still complete.                                   *)
CloseSession ==
    /\ open
    /\ open' = FALSE
    /\ habits' = INITIAL_HABITS
    /\ isInitial' = TRUE
    /\ loadState' = "none"
    /\ loadResult' = Rejected
    /\ lastAlert' = "none"
    /\ currentDate' = NoDay
    /\ startSlot' = Null
    /\ loadBranch' = "none"
    /\ preLoad' = FALSE
    /\ lastOp' = "none"
    /\ resetDone' = FALSE
    /\ nFails' = 0
    /\ UNCHANGED <<now, slot, queue, doneToday, nOps>>

Tick ==
    /\ now < EndNow
    /\ now' = now + 1
    /\ doneToday' = IF DateString(now + 1) = Today THEN doneToday ELSE {}
    /\ UNCHANGED <<slot, queue, open, habits, isInitial, loadState, loadResult,
                   lastAlert, currentDate, startSlot, loadBranch,
                   preLoad, lastOp, resetDone, nOps, nFails>>

(* The continuation of loadHabits after the await (lines 55-81). *)
ApplyLoad ==
    /\ open
    /\ loadState = "arrived"
    /\ LET r == LoadRule(loadResult, Today)
       IN  /\ Render(r.habits, r.isInitial, queue)
           /\ loadBranch' = r.branch
    /\ loadState' = "applied"
    /\ UNCHANGED <<now, slot, open, loadResult, lastAlert, currentDate, startSlot,
                   preLoad, doneToday, lastOp, resetDone, nOps, nFails>>

(* What every user operation on the list records. *)
UserOp(name) ==
    /\ open
    /\ nOps < MaxOps
    /\ nOps' = nOps + 1
    /\ lastOp' = name
    /\ resetDone' = (resetDone \/ name = "reset")
    /\ preLoad' = (preLoad \/ loadState # "applied")
    /\ lastAlert' = "none"
    /\ UNCHANGED <<now, slot, open, loadState, loadResult, currentDate, startSlot,
                   loadBranch, nFails>>

(* The id toggle and remove are tried on: a default habit, which is in the *)
(* list or not according to what was removed or loaded before.            *)
TargetIds == {"1"}

toggleHabit(id) ==
    /\ UserOp("toggle")
    /\ Render(Toggled(habits, id), FALSE, queue)
    /\ doneToday' = IF \E i \in 1..Len(habits) : habits[i].id = id /\ ~habits[i].completed
                    THEN doneToday \cup {id}
                    ELSE doneToday

FormNames == { <<" ">>, <<" ", "Stretch", " ">> }
FormDescs == { <<" ">>, <<" ", "5", " ", "min", " ">> }

addHabit(newHabitName, newHabitDesc) ==
    LET name == Trim(newHabitName)
        description == Trim(newHabitDesc)
    IN  IF name = <<>>
        THEN /\ open
             /\ nOps < MaxOps
             /\ nOps' = nOps + 1
             /\ lastAlert' = "Missing name"
             /\ UNCHANGED <<now, slot, queue, open, habits, isInitial, loadState,
                            loadResult, currentDate, startSlot, loadBranch,
                            preLoad, doneToday, lastOp, resetDone, nFails>>
        ELSE /\ UserOp("add")
             /\ Render(Added(habits, NewHabit(name, description, now)), FALSE, queue)
             /\ UNCHANGED doneToday

(* removeHabit(id) followed by the dialog's "Remove" button. *)
removeHabit(id) ==
    /\ UserOp("remove")
    /\ Render(Removed(habits, id), FALSE, queue)
    /\ UNCHANGED doneToday

(* clearAllHabits followed by the dialog's "Reset" button: setHabits, then *)
(* removeItem is called before the handler suspends; the render and its    *)
(* effect come after the handler.                                          *)
(* Mutant: the reset keeps the list and unchecks its habits. *)
clearAllHabits_Uncheck ==
    /\ UserOp("reset")
    /\ Render(ResetCompleted(habits), FALSE, Append(queue, RemoveRequest))
    /\ UNCHANGED doneToday

clearAllHabits ==
    /\ UserOp("reset")
    /\ Render(INITIAL_HABITS, TRUE, Append(queue, RemoveRequest))
    /\ UNCHANGED doneToday

(* ---------------------------- AsyncStorage ----------------------------- *)
Without(q, i) == SubSeq(q, 1, i - 1) \o SubSeq(q, i + 1, Len(q))

StorageFrame == UNCHANGED <<now, open, habits, isInitial, lastAlert, currentDate,
                            startSlot, loadBranch, preLoad, doneToday, lastOp,
                            resetDone, nOps>>

Reading == open /\ loadState = "reading"

StorageGet(i) ==
    /\ i \in 1..Len(queue)
    /\ queue[i].op = "get"
    /\ queue' = Without(queue, i)
    /\ loadResult' = IF Reading THEN Resolved(slot) ELSE loadResult
    /\ loadState' = IF Reading THEN "arrived" ELSE loadState
    /\ StorageFrame
    /\ UNCHANGED <<slot, nFails>>

StorageSet(i) ==
    /\ i \in 1..Len(queue)
    /\ queue[i].op = "set"
    /\ queue' = Without(queue, i)
    /\ slot' = queue[i].value
    /\ StorageFrame
    /\ UNCHANGED <<loadState, loadResult, nFails>>

StorageRemove(i) ==
    /\ i \in 1..Len(queue)
    /\ queue[i].op = "remove"
    /\ queue' = Without(queue, i)
    /\ slot' = Null
    /\ StorageFrame
    /\ UNCHANGED <<loadState, loadResult, nFails>>

(* The request is rejected: getItem's rejection is caught by loadHabits,   *)
(* setItem's by saveHabits (logged), removeItem's by nobody.               *)
(* Mutant: a rejected write puts the default list back, as the catch of    *)
(* loadHabits does.                                                          *)
StorageFail_Rollback(i) ==
    /\ i \in 1..Len(queue)
    /\ nFails < MaxFails
    /\ nFails' = IF open THEN nFails + 1 ELSE nFails
    /\ queue' = Without(queue, i)
    /\ loadResult' = IF queue[i].op = "get" /\ Reading THEN Rejected ELSE loadResult
    /\ loadState' = IF queue[i].op = "get" /\ Reading THEN "arrived" ELSE loadState
    /\ habits' = IF queue[i].op = "set" /\ open THEN INITIAL_HABITS ELSE habits
    /\ isInitial' = IF queue[i].op = "set" /\ open THEN TRUE ELSE isInitial
    /\ UNCHANGED <<now, open, lastAlert, currentDate, startSlot, loadBranch,
                   preLoad, doneToday, lastOp, resetDone, nOps, slot>>

StorageFail(i) ==
    /\ i \in 1..Len(queue)
    /\ nFails < MaxFails
    /\ nFails' = IF open THEN nFails + 1 ELSE nFails
    /\ queue' = Without(queue, i)
    /\ loadResult' = IF queue[i].op = "get" /\ Reading THEN Rejected ELSE loadResult
    /\ loadState' = IF queue[i].op = "get" /\ Reading THEN "arrived" ELSE loadState
    /\ StorageFrame
    /\ UNCHANGED slot

Complete(i) == StorageGet(i) \/ StorageSet(i) \/ StorageRemove(i) \/ StorageFail(i)

User ==
    \/ \E id \in TargetIds : toggleHabit(id)
    \/ \E n \in FormNames, d \in FormDescs : addHabit(n, d)
    \/ \E id \in TargetIds : removeHabit(id)
    \/ clearAllHabits

Next ==
    \/ StartSession
    \/ CloseSession
    \/ Tick
    \/ ApplyLoad
    \/ User
    \/ Complete(1)

Spec == Init /\ [][Next]_vars

NextRace ==
    \/ StartSession
    \/ CloseSession
    \/ Tick
    \/ ApplyLoad
    \/ User
    \/ \E i \in 1..Len(queue) : Complete(i)

SpecRace == Init /\ [][NextRace]_vars

(* ---------------------------- properties ------------------------------ *)
(* The step in which the load result is applied to the list. *)
ApplyStep == loadState = "arrived" /\ loadState' = "applied"

(* The slot held a snapshot the program itself could have written. *)
IsSnapshot(raw) == raw.present /\ raw.valid /\ raw.hasHabits

(* A step of add, remove or toggle that went through to setHabits. *)
EditStep == nOps' = nOps + 1 /\ lastAlert' = "none" /\ lastOp' \in {"add", "remove", "toggle"}

(* C1: a session started on day D with a snapshot of another day in the slot
   has, once the result of reading it is applied, exactly the snapshot's
   records in their order, with their id, name and description, and every
   one with completed = FALSE.  (A rejected read gives no load result of
   the snapshot: that is the case of C8.) *)
C1_Rollover ==
    [][ (ApplyStep /\ loadResult.ok /\ IsSnapshot(startSlot)
            /\ startSlot.date # currentDate)
            => /\ habits' = ResetCompleted(startSlot.habits)
               /\ Len(habits') = Len(startSlot.habits)
               /\ \A i \in 1..Len(habits') :
                    /\ habits'[i].id = startSlot.habits[i].id
                    /\ habits'[i].name = startSlot.habits[i].name
                    /\ habits'[i].description = startSlot.habits[i].description
                    /\ ~habits'[i].completed ]_vars

C1_Witness ==
    /\ open /\ loadState = "applied" /\ loadBranch = "NewDay" /\ lastOp = "mount"
    /\ loadResult.ok
    /\ IsSnapshot(startSlot) /\ startSlot.date # currentDate
    /\ \E i \in 1..Len(startSlot.habits) : startSlot.habits[i].completed
    /\ habits = ResetCompleted(startSlot.habits)

(* C2, as claimed: a session started on day D with a snapshot of the list S
   written on D in the slot has, once the result of reading it is applied,
   exactly S. *)
C2_RoundTrip_Claimed ==
    [][ (ApplyStep /\ loadResult.ok /\ IsSnapshot(startSlot)
            /\ startSlot.date = currentDate)
            => habits' = startSlot.habits ]_vars

(* C2, amended: the day that counts is the day on which the load result is
   evaluated, not the day on which the session was started. *)
C2_RoundTrip ==
    [][ (ApplyStep /\ loadResult.ok /\ IsSnapshot(startSlot) /\ startSlot.date = Today)
            => habits' = startSlot.habits ]_vars

C2_Witness ==
    /\ open /\ loadState = "applied" /\ loadBranch = "SameDay" /\ lastOp = "mount"
    /\ IsSnapshot(startSlot) /\ startSlot.date = Today
    /\ \E i \in 1..Len(startSlot.habits) : startSlot.habits[i].completed
    /\ habits = startSlot.habits

(* C3: after a session start and load on the current day, a habit is shown
   completed only if it was toggled to completed on this day. *)
C3_NoStaleCompletion ==
    (open /\ loadState = "applied" /\ currentDate = Today)
        => \A i \in 1..Len(habits) : habits[i].completed => habits[i].id \in doneToday

(* C4: with requests completing in any order, once every request issued has
   completed (none rejected) after adds, removes and toggles, the slot holds
   the list of the store. *)
C4_SlotReflectsStore ==
    (open /\ loadState = "applied" /\ queue = <<>> /\ nFails = 0 /\ ~resetDone
          /\ ~preLoad /\ lastOp \in {"add", "remove", "toggle"})
        => IsSnapshot(slot) /\ slot.habits = habits

(* C5: the load result never replaces a list the user has already changed
   in this session. *)
C5_LoadBeforeMutations == [][ (ApplyStep /\ preLoad) => habits' = habits ]_vars

(* C6: every add, remove or toggle that reaches the list issues one write of
   the whole list as it is after the operation, stamped with the current day. *)
C6_WriteThrough ==
    [][ EditStep => queue' = Append(queue, SetRequest(JSONStringify(habits', Today))) ]_vars

C6_Witness ==
    /\ open /\ lastOp = "remove" /\ queue # <<>>
    /\ Len(habits) < Len(INITIAL_HABITS)
    /\ queue[Len(queue)] = SetRequest(JSONStringify(habits, Today))

(* C7: once the requests caused by a confirmed reset have completed, the
   slot is absent. *)
C7_ResetLeavesSlotAbsent ==
    (open /\ loadState = "applied" /\ lastOp = "reset" /\ queue = <<>>
          /\ nFails = 0 /\ ~preLoad)
        => ~slot.present

(* C8: a rejected read or an unparsable slot gives the default list, the
   session is left mounted with the load done, and add, remove and toggle
   are applied to the list afterwards as usual. *)
C8_LoadFailsSoftly ==
    [][ /\ (ApplyStep /\ (~loadResult.ok \/ (startSlot.present /\ ~startSlot.valid)))
            => (habits' = INITIAL_HABITS /\ loadBranch' = "Error" /\ open')
        /\ (loadBranch = "Error" /\ loadState = "applied" /\ EditStep)
            => /\ lastOp' = "toggle" => habits' = Toggled(habits, "1")
               /\ lastOp' = "remove" => habits' = Removed(habits, "1")
               /\ lastOp' = "add" => /\ Len(habits') = Len(habits) + 1
                                     /\ SubSeq(habits', 1, Len(habits)) = habits ]_vars

C8_Witness ==
    /\ open /\ loadState = "applied" /\ loadBranch = "Error"
    /\ startSlot.present /\ ~startSlot.valid
    /\ lastOp = "add" /\ Len(habits) = Len(INITIAL_HABITS) + 1

(* C9: a session started with the slot absent has the default list once the
   load result is applied. *)
C9_NoData ==
    [][ (ApplyStep /\ ~startSlot.present)
            => /\ habits' = INITIAL_HABITS
               /\ Len(habits') = 5
               /\ \A i \in 1..5 : habits'[i].id = ToString(i) /\ ~habits'[i].completed ]_vars

C9_Witness ==
    /\ open /\ loadState = "applied" /\ loadBranch = "NoStoredData"
    /\ ~startSlot.present /\ lastOp = "mount" /\ nOps > 0
    /\ habits = INITIAL_HABITS

(* C10: no two records of the list have the same id. *)
C10_UniqueIds ==
    open => \A i, j \in 1..Len(habits) : i # j => habits[i].id # habits[j].id

(* A text of blanks only (the empty text included). *)
IsBlank(s) == \A i \in 1..Len(s) : s[i] = " "

(* t is s without its leading and trailing blanks. *)
IsTrimOf(t, s) ==
    /\ t # <<>> => (t[1] # " " /\ t[Len(t)] # " ")
    /\ \E a \in 0..(Len(s) - Len(t)) :
          /\ SubSeq(s, a + 1, a + Len(t)) = t
          /\ \A k \in 1..Len(s) : (k <= a \/ k > a + Len(t)) => s[k] = " "

(* C11: an add with a name of blanks only changes nothing of the list,
   issues no write and shows the "Missing name" alert. *)
C11_BlankNameRejected ==
    [][ \A n \in FormNames, d \in FormDescs :
          (nOps' = nOps + 1 /\ IsBlank(n) /\ addHabit(n, d))
            => /\ habits' = habits
               /\ isInitial' = isInitial
               /\ queue' = queue
               /\ lastAlert' = "Missing name" ]_vars

C11_Witness ==
    /\ open /\ lastAlert = "Missing name" /\ lastOp = "toggle"
    /\ Len(habits) = Len(INITIAL_HABITS) /\ habits[1].completed

(* C12: an add with a name that is not blank appends one record and leaves
   the records before it as they were; the new record is not completed, its
   name is the trimmed name, its description the trimmed description, or
   the placeholder when the description is blank. *)
C12_AddAppends ==
    [][ \A n \in FormNames, d \in FormDescs :
          (nOps' = nOps + 1 /\ ~IsBlank(n) /\ addHabit(n, d))
            => /\ Len(habits') = Len(habits) + 1
               /\ SubSeq(habits', 1, Len(habits)) = habits
               /\ LET h == habits'[Len(habits')]
                  IN  /\ ~h.completed
                      /\ h.name # <<>> /\ IsTrimOf(h.name, n)
                      /\ IF IsBlank(d) THEN h.description = NoDescription
                         ELSE h.description # <<>> /\ IsTrimOf(h.description, d) ]_vars

C12_Witness ==
    /\ open /\ lastOp = "add" /\ nOps = 2
    /\ Len(habits) = Len(INITIAL_HABITS) + 2
    /\ habits[6].name = <<"Stretch">> /\ habits[6].description = NoDescription
    /\ habits[7].description = <<"5", " ", "min">> /\ ~habits[7].completed

(* The ids the pure parts are probed with: one that no record has, and
   those of the first and the last record. *)
ProbeIds(hs) == {"0"} \cup {hs[i].id : i \in {1, Len(hs)} \cap (1..Len(hs))}

(* next is hs with the completed flag flipped on the records of that id
   and nothing else changed. *)
FlipOf(next, hs, id) ==
    /\ Len(next) = Len(hs)
    /\ \A i \in 1..Len(hs) :
          /\ next[i].id = hs[i].id
          /\ next[i].name = hs[i].name
          /\ next[i].description = hs[i].description
          /\ next[i].completed = (IF hs[i].id = id THEN ~hs[i].completed
                                  ELSE hs[i].completed)

(* C13: a toggle flips the completed flag of the records with that id and
   changes nothing else; with an id that no record has the list stays as it
   is; toggling the same id again gives the list back. *)
C13_ToggleInverse ==
    [][ \A id \in TargetIds :
          (nOps' = nOps + 1 /\ toggleHabit(id))
            => /\ FlipOf(habits', habits, id)
               /\ (id \notin Ids(habits)) => habits' = habits
               /\ Toggled(habits', id) = habits
               /\ \A other \in ProbeIds(habits) :
                    /\ FlipOf(Toggled(habits, other), habits, other)
                    /\ Toggled(Toggled(habits, other), other) = habits ]_vars

C13_Witness ==
    /\ open /\ lastOp = "toggle" /\ nOps = 2 /\ loadBranch = "SameDay" /\ ~preLoad
    /\ habits = startSlot.habits

(* next is hs without the records of that id, the others in their order. *)
RECURSIVE WithoutId(_, _, _)
WithoutId(next, hs, id) ==
    IF hs = <<>> THEN next = <<>>
    ELSE IF Head(hs).id = id THEN WithoutId(next, Tail(hs), id)
    ELSE next # <<>> /\ Head(next) = Head(hs) /\ WithoutId(Tail(next), Tail(hs), id)

(* C14: a confirmed remove drops the records with that id and keeps the
   others in their order; removing the same id again, or an id that no
   record has, leaves the list as it is. *)
C14_RemoveIdempotent ==
    [][ \A id \in TargetIds :
          (nOps' = nOps + 1 /\ removeHabit(id))
            => /\ WithoutId(habits', habits, id)
               /\ id \notin Ids(habits')
               /\ (id \notin Ids(habits)) => habits' = habits
               /\ Removed(habits', id) = habits'
               /\ \A other \in ProbeIds(habits) :
                    /\ WithoutId(Removed(habits, other), habits, other)
                    /\ Removed(Removed(habits, other), other) = Removed(habits, other) ]_vars

C14_Witness ==
    /\ open /\ lastOp = "remove" /\ nOps = 2 /\ loadBranch = "NoStoredData" /\ ~preLoad
    /\ habits = SubSeq(INITIAL_HABITS, 2, Len(INITIAL_HABITS))
    /\ queue # <<>>
    /\ \A i \in 1..Len(queue) : queue[i] = SetRequest(JSONStringify(habits, Today))

(* A step in which the write at the head of the queue is rejected. *)
WriteFails ==
    /\ queue # <<>> /\ queue[1].op = "set"
    /\ queue' = Tail(queue) /\ nFails' = nFails + 1

(* C15: a rejected write leaves the list, the session and the writes behind
   it as they are; add, remove and toggle after a rejection are applied to
   the list and issue their own write. *)
C15_FailedWriteKeepsStore ==
    [][ /\ WriteFails
            => /\ habits' = habits /\ isInitial' = isInitial
               /\ open' /\ loadState' = loadState /\ slot' = slot
        /\ (nFails > 0 /\ EditStep)
            => /\ lastOp' = "toggle" => habits' = Toggled(habits, "1")
               /\ lastOp' = "remove" => habits' = Removed(habits, "1")
               /\ lastOp' = "add" =>
                    /\ Len(habits') = Len(habits) + 1
                    /\ SubSeq(habits', 1, Len(habits)) = habits
               /\ queue' = Append(queue, SetRequest(JSONStringify(habits', Today))) ]_vars

C15_Witness ==
    /\ open /\ nFails = 1 /\ loadResult.ok /\ loadState = "applied" /\ ~resetDone
    /\ ~preLoad /\ nOps = 2 /\ lastOp = "add"
    /\ habits[1].completed /\ Len(habits) = Len(INITIAL_HABITS) + 1
    /\ IsSnapshot(slot) /\ slot.habits = INITIAL_HABITS
    /\ queue = <<SetRequest(JSONStringify(habits, Today))>>

(* A confirmed reset. *)
ResetStep == nOps' = nOps + 1 /\ lastAlert' = "none" /\ lastOp' = "reset"

(* C16, as claimed: a confirmed reset keeps the records of the list and
   their order and leaves every one with completed = FALSE. *)
C16_ResetKeepsList_Claimed ==
    [][ ResetStep
          => /\ Len(habits') = Len(habits)
             /\ \A i \in 1..Len(habits) :
                  /\ habits'[i].id = habits[i].id
                  /\ habits'[i].name = habits[i].name
                  /\ habits'[i].description = habits[i].description
                  /\ ~habits'[i].completed ]_vars

(* C16, amended: a confirmed reset replaces the list by the five default
   habits in their order, none completed, whatever the list was: added
   habits are gone and removed defaults are back. *)
C16_ResetRestoresDefaults ==
    [][ ResetStep
          => /\ habits' = INITIAL_HABITS
             /\ Len(habits') = 5
             /\ \A i \in 1..Len(habits') :
                  habits'[i].id = ToString(i) /\ ~habits'[i].completed ]_vars

C16_Witness ==
    /\ open /\ lastOp = "reset" /\ loadBranch = "SameDay" /\ ~preLoad
    /\ startSlot.habits = SavedList
    /\ habits = INITIAL_HABITS

(* C17: while the result of the startup read is not applied, no write has
   changed the slot: a snapshot found at the start of the session is still
   there. *)
C17_NoWriteBeforeLoad ==
    (open /\ lastOp = "mount" /\ loadState \in {"reading", "arrived"}
          /\ IsSnapshot(startSlot))
        => slot = startSlot

(* C18: the completed count is the number of records with completed = TRUE
   and at most the length of the list; the percentage is an integer from 0
   to 100, 0 for the empty list and 100 for a list that is not empty with
   every record completed. *)
C18_ProgressConsistent ==
    /\ completedCount = Cardinality({i \in 1..Len(habits) : habits[i].completed})
    /\ completedCount <= Len(habits)
    /\ percentage \in 0..100
    /\ habits = <<>> => percentage = 0
    /\ (habits # <<>> /\ \A i \in 1..Len(habits) : habits[i].completed)
          => percentage = 100

C18_Witness ==
    /\ open /\ lastOp = "remove" /\ habits = <<>>
    /\ completedCount = 0 /\ percentage = 0

====
